---- MODULE Spec2Model ----
(***************************************************************************)
(* LEC-Analyzer: the tiered extraction pipeline of DocumentProcessor.      *)
(*                                                                         *)
(* Texts are TLA+ strings; the Python string operations the pipeline uses  *)
(* (strip, lower, the "in" test, re.search over the fixed pattern table,   *)
(* "\n\n".join) are defined character by character over them.             *)
(***************************************************************************)
EXTENDS Integers, Sequences, FiniteSets, TLC

(***************************************************************************)
(* Bounds of the model.                                                    *)
(***************************************************************************)
\* The user selects at most this many documents for one run.
NumDocs == 2
\* Only the first NumTopics entries of self.prompts are used.
NumTopics == 2
\* Number of runs the user starts one after the other.
MaxRuns == 1
\* Number of times the user presses "Run Processing" without waiting for the
\* end of the run before; as many worker threads can exist at the same time.
MaxStarts == 2
\* The PDF documents extracted have 0..SmallDoc pages, or one page more than
\* the cap of extract_text_from_pdf.
SmallDoc == 22
\* At most this many pages of a document raise when they are loaded.
MaxPageErrors == 1

(***************************************************************************)
(* Python string operations.                                               *)
(***************************************************************************)
\* str.strip() removes these from both ends.
IsSpace(c) == c \in {" ", "\n", "\t", "\r"}

CharAt(s, i) == SubSeq(s, i, i)

\* Length of the run of white-space characters of s that starts at position i.
RECURSIVE LeadingSpace(_, _)
LeadingSpace(s, i) ==
    IF i <= Len(s) /\ IsSpace(CharAt(s, i)) THEN 1 + LeadingSpace(s, i + 1) ELSE 0

\* Length of the run of white-space characters of s that ends at position i.
RECURSIVE TrailingSpace(_, _)
TrailingSpace(s, i) ==
    IF i >= 1 /\ IsSpace(CharAt(s, i)) THEN 1 + TrailingSpace(s, i - 1) ELSE 0

\* s.strip()
Strip(s) ==
    LET lead == LeadingSpace(s, 1)
    IN  IF lead = Len(s) THEN ""
        ELSE SubSeq(s, lead + 1, Len(s) - TrailingSpace(s, Len(s)))

\* p occurs in s at position i
MatchAt(s, p, i) == i >= 1 /\ i + Len(p) - 1 <= Len(s) /\ SubSeq(s, i, i + Len(p) - 1) = p

\* p in s
Contains(s, p) == \E i \in 1..(Len(s) - Len(p) + 1) : MatchAt(s, p, i)

\* s.endswith(p)
EndsWith(s, p) == Len(p) <= Len(s) /\ SubSeq(s, Len(s) - Len(p) + 1, Len(s)) = p

UpperCase == "ABCDEFGHIJKLMNOPQRSTUVWXYZ"
LowerCase == "abcdefghijklmnopqrstuvwxyz"

LowerChar(c) ==
    IF \E i \in 1..Len(UpperCase) : CharAt(UpperCase, i) = c
    THEN CharAt(LowerCase, CHOOSE i \in 1..Len(UpperCase) : CharAt(UpperCase, i) = c)
    ELSE c

\* s.lower(), by halves
RECURSIVE Lower(_)
Lower(s) ==
    IF Len(s) <= 1 THEN LowerChar(s)
    ELSE LET h == Len(s) \div 2
         IN  Lower(SubSeq(s, 1, h)) \o Lower(SubSeq(s, h + 1, Len(s)))

\* sep.join(parts)
RECURSIVE Join(_, _)
Join(parts, sep) ==
    IF parts = <<>> THEN ""
    ELSE IF Len(parts) = 1 THEN parts[1]
    ELSE parts[1] \o sep \o Join(Tail(parts), sep)

\* os.path.basename(path)
Basename(path) ==
    LET slashes == {i \in 1..Len(path) : CharAt(path, i) = "/"}
    IN  IF slashes = {} THEN path
        ELSE SubSeq(path, (CHOOSE i \in slashes : \A j \in slashes : j <= i) + 1, Len(path))

(***************************************************************************)
(* Response cleaning.                                                      *)
(***************************************************************************)
\* The sentinel.
NA == "N/A"

\* "." of a regular expression without re.DOTALL: any character but newline.
NoNewline(s, from, to) == \A k \in from..to : CharAt(s, k) # "\n"

\* re.search(r"a.*b.*c", s)
SearchDotStar3(s, a, b, c) ==
    \E i \in 1..Len(s) :
        /\ MatchAt(s, a, i)
        /\ \E j \in (i + Len(a))..Len(s) :
              /\ MatchAt(s, b, j)
              /\ \E k \in (j + Len(b))..Len(s) :
                    /\ MatchAt(s, c, k)
                    /\ NoNewline(s, i, k)

\* re.search(r"a (x|y|..) (u|v|..)", s) and its shorter forms: a literal
\* followed by one alternative of each group, in order.
SearchAlt(s, head, alts1, alts2) ==
    \E x \in alts1 : \E y \in alts2 : Contains(s, head \o x \o y)

\* is_empty_response: the table empty_patterns, searched in the lower-cased
\* stripped text.
is_empty_response(response_text) ==
    LET t == Strip(Lower(response_text))
    IN  \/ SearchDotStar3(t, "based on my review", "no", "found")
        \/ SearchAlt(t, "there ", {"is", "are", "was", "were"}, {" no"})
        \/ SearchAlt(t, "i ", {"do not", "don't", "cannot", "can't"}, {" find"})
        \/ Contains(t, "no relevant information")
        \/ SearchAlt(t, "no ", {"quotes", "information", "data", "content", "text"},
                     {" related", " relevant", " pertaining", " referring"})
        \/ SearchAlt(t, "the document does not ",
                     {"contain", "include", "mention", "discuss", "address"}, {""})
        \/ Contains(t, "nothing in the document")

\* CleanResult with the test "N/A" == r.strip() in place of "N/A" in r.
CleanResult_ExactOnly(raw) == IF Strip(raw) = NA \/ is_empty_response(raw) THEN NA ELSE raw

\* The cleaning applied to every tier answer:
\*   if "N/A" in r or self.is_empty_response(r): r = "N/A"
CleanResult(raw) == IF Contains(raw, NA) \/ is_empty_response(raw) THEN NA ELSE raw

(***************************************************************************)
(* Program data.                                                           *)
(***************************************************************************)
\* self.prompts: the first entries of the list, in declaration order.
prompts ==
    SubSeq(<<"Personal History and Living Situation (basic plaintiff facts)",
             "Education History (Plaintiff Only - Do not include Author or Expert Education History",
             "Pre-Event Employment History (Jobs prior to accident)",
             "Employment at the Time of the Event">>, 1, NumTopics)

\* preferred_models of get_latest_claude_model, newest first.
preferred_models ==
    <<"claude-3-5-sonnet-20241022", "self.claude_model", "claude-3-sonnet-20240229">>

\* The model returned when no preferred model answers the probe.
fallback_model == "claude-3-sonnet-20240229"

\* self.claude_model before it is determined.
None == "None"

\* Minimum length of a tier's content below which the next tier is asked.
MinContent == 100

\* Files the user can pick in the file dialog.
ExpertPdf == "C:/Cases/Smith/Expert Reports/economist.pdf"
PlainPdf == "C:/Cases/Smith/Depositions/plaintiff.pdf"
TextFile == "C:/Cases/Smith/notes.txt"
Files == {ExpertPdf, PlainPdf, TextFile}

\* Texts the model may answer a tier query with.
LongQuote ==
    "\"The plaintiff earned $52,000 per year as a journeyman electrician at the time of the accident in 2019.\" (Page 3)"
ShortQuote == "\"He was paid $25 per hour.\" (Page 12)\n"
Answers ==
    { NA,
      "N/A - the pages contain nothing on this topic.",
      "There is no mention of wages in this document.",
      ShortQuote,
      LongQuote,
      " " }

\* Answers by which the model says in words that it found nothing.
NoInformationAnswers ==
    { "No information found",
      "I cannot find any quotes on this topic.",
      "I can't find anything about wages.",
      "There is no mention of wages in this document.",
      "There are no statements about benefits.",
      "The document does not contain wage data.",
      "The document does not mention taxes.",
      "Nothing in the document concerns this topic." }

\* The cleaned form of each answer.
Cleaned == [answer \in Answers \cup NoInformationAnswers |-> CleanResult(answer)]

\* str(e) of the exception a failing query raises.
QueryError == "Connection error."

Workers == 1..MaxStarts

(***************************************************************************)
(* State.                                                                  *)
(***************************************************************************)
VARIABLES
    selected_items,      \* self.selected_items
    api_key,             \* self.api_key
    claude_model,        \* self.claude_model
    current_file_label,  \* text of self.current_file_label
    progress_bar,        \* [maximum, value] of self.progress_bar
    worker,              \* per thread: position and locals of process_documents
    runs,                \* number of times processing was started
    delayed,             \* a time.sleep(1) has completed since the last query was sent
    model_answers,       \* the texts the model service answers tier queries with
    pdf                  \* one call of extract_text_from_pdf: position and locals

vars == <<selected_items, api_key, claude_model, current_file_label, progress_bar,
          worker, runs, delayed, model_answers, pdf>>

\* The value None of process_document_with_claude (no text was extracted).
NoResult == [none |-> TRUE]

\* No call of extract_text_from_pdf is looked at.  A text is held as the
\* sequence of the numbers n of its markers "--- Page n ---", one for each
\* page whose text was appended.
NoPdf ==
    [ pc |-> "none",
      file_path |-> "",
      len_doc |-> 0,              \* len(doc)
      page_count |-> 0,
      page_num |-> 0,
      primary_text |-> <<>>,
      secondary_text |-> <<>>,
      tertiary_text |-> <<>>,
      text |-> <<>>,
      failed |-> {},              \* history: the page_num whose load_page raised
      parts |-> "none" ]          \* the kind of dictionary returned

\* A thread slot with no thread in it.
NoThread ==
    [ pc |-> "idle",
      document_paths |-> <<>>,      \* process_documents: document_paths
      i |-> 0,                      \* process_documents: 1-based index of the document
      results |-> <<>>,             \* process_documents: results
      result |-> NoResult,          \* process_documents: result of the current document
      is_expert_report |-> FALSE,   \* process_document_with_claude
      probe |-> 0,                  \* get_latest_claude_model: index in preferred_models
      t |-> 0,                      \* 1-based index of the prompt of the loop
      responses |-> <<>>,           \* process_document_with_claude: results
      primary_result |-> "",
      secondary_result |-> "",
      tertiary_result |-> "",
      answer |-> "",                \* history: response.content[0].text just received
      queries |-> <<>>,             \* history: queries sent for the current document
      reset |-> "none",             \* history: how the reset query of the document ended
      status |-> <<>>,              \* history: how each document of the run ended
      outcome |-> "none",           \* message box shown at the end of the run
      report |-> <<>> ]             \* the sections of the report document written

Init ==
    /\ selected_items = <<>>
    /\ api_key = ""
    /\ claude_model = None
    /\ current_file_label = NA
    /\ progress_bar = [maximum |-> 0, value |-> 0]
    /\ worker = [w \in Workers |-> NoThread]
    /\ runs = 0
    /\ delayed = TRUE
    /\ model_answers = Answers
    /\ pdf = NoPdf

(***************************************************************************)
(* The decisions of process_document_with_claude.                          *)
(***************************************************************************)
\* NeedSecondary without the length test.
NeedSecondary_SentinelOnly(primary_result) == Strip(primary_result) = NA

\* Line 547: the secondary content is sent when the primary found too little.
NeedSecondary(primary_result) ==
    Strip(primary_result) = NA \/ Len(Strip(primary_result)) < MinContent

\* NeedTertiary without the test that the secondary answer is the sentinel.
NeedTertiary_AnyShort(primary_result, secondary_result) ==
    \/ Strip(primary_result) = NA /\ Strip(secondary_result) = NA
    \/ /\ Len(Strip(primary_result)) < MinContent
       /\ Len(Strip(secondary_result)) < MinContent

\* NeedTertiary without the case of two empty answers.
NeedTertiary_ContentOnly(primary_result, secondary_result) ==
    /\ Strip(primary_result) # NA
    /\ Len(Strip(primary_result)) < MinContent
    /\ Len(Strip(secondary_result)) < MinContent
    /\ Strip(secondary_result) = NA

\* Line 599: the tertiary content is sent only if needed.
NeedTertiary(primary_result, secondary_result) ==
    \/ Strip(primary_result) = NA /\ Strip(secondary_result) = NA
    \/ /\ Len(Strip(primary_result)) < MinContent
       /\ Len(Strip(secondary_result)) < MinContent
       /\ Strip(secondary_result) = NA

\* CombineResults with the sentinels left in.
CombineResults_KeepSentinel(primary_result, secondary_result, tertiary_result) ==
    Strip(Join(<<Strip(primary_result), Strip(secondary_result), Strip(tertiary_result)>>,
               "\n\n"))

\* CombineResults with the tertiary result appended first.
CombineResults_TertiaryFirst(primary_result, secondary_result, tertiary_result) ==
    LET stripped == <<Strip(tertiary_result), Strip(secondary_result), Strip(primary_result)>>
        all_results == SelectSeq(stripped, LAMBDA r : r # NA)
        combined_result == IF all_results # <<>> THEN Join(all_results, "\n\n") ELSE NA
    IN  Strip(combined_result)

\* Lines 649-666: all_results, combined_result and the value stored for the
\* prompt.  A tier that was not asked has the result "".
CombineResults(primary_result, secondary_result, tertiary_result) ==
    LET stripped == <<Strip(primary_result), Strip(secondary_result), Strip(tertiary_result)>>
        all_results == SelectSeq(stripped, LAMBDA r : r # NA)
        combined_result == IF all_results # <<>> THEN Join(all_results, "\n\n") ELSE NA
    IN  Strip(combined_result)

\* Line 727: the "response" text of a document processed without error.
CombinedResponse(responses) ==
    Join([k \in 1..Len(responses) |->
            "## " \o responses[k].prompt \o "\n" \o responses[k].response], "\n\n")

\* Lines 730-735: the dictionary returned for a processed document.
DocumentResult(document_path, responses) ==
    [ document_name |-> Basename(document_path),
      document_path |-> document_path,
      response |-> CombinedResponse(responses),
      individual_responses |-> responses ]

\* Lines 740-744: the dictionary returned when a query raised.
ErrorResult(document_path, e) ==
    [ document_name |-> Basename(document_path),
      document_path |-> document_path,
      response |-> "Error: " \o e ]

\* ExtractTextFromFile without the test of the extension.
ExtractTextFromFile_AnyFormat(file_path, opens) ==
    IF ~opens THEN "error"
    ELSE IF Contains(file_path, "Expert Reports") THEN "expert" ELSE "flat"

\* extract_text_from_file: "error" for a file that is no PDF or cannot be
\* opened, else the chunking chosen by the path.
ExtractTextFromFile(file_path, opens) ==
    IF ~EndsWith(Lower(file_path), ".pdf") THEN "error"
    ELSE IF ~opens THEN "error"
    ELSE IF Contains(file_path, "Expert Reports") THEN "expert" ELSE "flat"

\* get_all_document_paths: the selected files with a valid extension, each once.
RECURSIVE UniquePaths(_, _)
UniquePaths(items, processed_paths) ==
    IF items = <<>> THEN <<>>
    ELSE LET item == Head(items)
             valid == \E ext \in {".pdf", ".docx", ".doc", ".txt"} : EndsWith(Lower(item), ext)
         IN  IF valid /\ item \notin processed_paths
             THEN <<item>> \o UniquePaths(Tail(items), processed_paths \cup {item})
             ELSE UniquePaths(Tail(items), processed_paths)

get_all_document_paths(items) == UniquePaths(items, {})

(***************************************************************************)
(* parse_claude_response and create_report_document.                       *)
(***************************************************************************)
IsDigit(c) == c \in {"0", "1", "2", "3", "4", "5", "6", "7", "8", "9"}

\* Length of the longest run of digits that starts at position i.
RECURSIVE DigitRun(_, _)
DigitRun(text, i) ==
    IF i <= Len(text) /\ IsDigit(CharAt(text, i)) THEN 1 + DigitRun(text, i + 1) ELSE 0

\* FindPages with the pattern r'(\d+)': every number of the text.
FindPages_AllNumbers(text) ==
    LET starts == {i \in 1..Len(text) :
                     /\ IsDigit(CharAt(text, i))
                     /\ i = 1 \/ ~IsDigit(CharAt(text, i - 1))}
        Nth(k) == CHOOSE i \in starts : Cardinality({j \in starts : j < i}) = k - 1
    IN  [k \in 1..Cardinality(starts) |->
            SubSeq(text, Nth(k), Nth(k) + DigitRun(text, Nth(k)) - 1)]

\* re.findall(r'Page\s+(\d+)', text, re.IGNORECASE): the digits of every match,
\* in the order of the matches (two matches never overlap).
FindPages(text) ==
    LET low == Lower(text)
        DigitsAt(i) == i + 4 + LeadingSpace(text, i + 4)
        starts == {i \in 1..Len(text) :
                     /\ MatchAt(low, "page", i)
                     /\ DigitsAt(i) > i + 4
                     /\ DigitRun(text, DigitsAt(i)) > 0}
        Nth(k) == CHOOSE i \in starts : Cardinality({j \in starts : j < i}) = k - 1
    IN  [k \in 1..Cardinality(starts) |->
            SubSeq(text, DigitsAt(Nth(k)), DigitsAt(Nth(k)) + DigitRun(text, DigitsAt(Nth(k))) - 1)]

\* The old method of parse_claude_response for one prompt: the text matched by
\*   rf"## {re.escape(prompt)}(.+?)(?=\n\n## |$)"  (DOTALL, IGNORECASE)
\* in the response, stripped; "" when the pattern does not match.
OldMethodContent(response, prompt) ==
    LET key == Lower("## " \o prompt)
        low == Lower(response)
        n == Len(response)
        Ahead(e) == \/ MatchAt(low, "\n\n## ", e)
                    \/ e = n + 1
                    \/ e = n /\ CharAt(response, n) = "\n"
        starts == {i \in 1..n : MatchAt(low, key, i) /\ i + Len(key) <= n}
    IN  IF starts = {} THEN ""
        ELSE LET i == CHOOSE x \in starts : \A y \in starts : x <= y
                 g == i + Len(key)
                 ends == {e \in (g + 1)..(n + 1) : Ahead(e)}
                 e == CHOOSE x \in ends : \A y \in ends : x <= y
             IN  Strip(SubSeq(response, g, e - 1))

\* parse_claude_response: the sections of one document's result, one per
\* prompt, in the order of the dictionary.
parse_claude_response(response_data) ==
    IF "individual_responses" \in DOMAIN response_data
    THEN [k \in 1..Len(response_data.individual_responses) |->
            LET r == response_data.individual_responses[k]
            IN  [ prompt |-> r.prompt,
                  content |-> Strip(r.response),
                  footnotes |-> FindPages(r.response) ]]
    ELSE [k \in 1..Len(prompts) |->
            LET content == OldMethodContent(response_data.response, prompts[k])
            IN  IF content # "" /\ content # NA
                THEN [ prompt |-> prompts[k],
                       content |-> content,
                       footnotes |-> FindPages(content) ]
                ELSE [ prompt |-> prompts[k],
                       content |-> "No information found",
                       footnotes |-> <<>> ]]

\* Lines 833-844 for one prompt: the documents that contribute a heading
\* "From: <document_name>" and a paragraph with their content.
SectionEntries(results, prompt) ==
    LET Entry(doc_result) ==
            LET parsed_result == parse_claude_response(doc_result)
                hits == SelectSeq(parsed_result, LAMBDA p : p.prompt = prompt)
            IN  IF /\ hits # <<>>
                   /\ hits[1].content # ""
                   /\ Strip(hits[1].content) # NA
                   /\ hits[1].content # "No information found"
                THEN <<[from |-> doc_result.document_name, text |-> hits[1].content]>>
                ELSE <<>>
        RECURSIVE Collect(_)
        Collect(k) == IF k > Len(results) THEN <<>> ELSE Entry(results[k]) \o Collect(k + 1)
    IN  Collect(1)

\* create_report_document: one section per prompt; a section without entries
\* holds the single paragraph "N/A".
create_report_document(results) ==
    [k \in 1..Len(prompts) |->
        LET entries == SectionEntries(results, prompts[k])
        IN  [ prompt |-> prompts[k],
              has_content |-> entries # <<>>,
              paragraphs |-> IF entries # <<>> THEN entries
                             ELSE <<[from |-> "", text |-> NA]>> ]]

(***************************************************************************)
(* The user interface.                                                     *)
(***************************************************************************)
\* The user prepares the selection before a run and not while documents are
\* being processed.
SetupAllowed == \A w \in Workers : worker[w].pc \in {"idle", "process_documents"}

InSelection(f) == \E k \in 1..Len(selected_items) : selected_items[k] = f

\* select_files, one file picked.
select_files(f) ==
    /\ SetupAllowed
    /\ Len(selected_items) < NumDocs
    /\ ~InSelection(f)
    /\ selected_items' = Append(selected_items, f)
    /\ UNCHANGED <<pdf, model_answers, api_key, claude_model, current_file_label, progress_bar, worker, runs,
                   delayed>>

\* clear_selection
clear_selection ==
    /\ SetupAllowed
    /\ selected_items # <<>>
    /\ selected_items' = <<>>
    /\ UNCHANGED <<pdf, model_answers, api_key, claude_model, current_file_label, progress_bar, worker, runs,
                   delayed>>

\* The user types the key into the entry bound to self.api_key.
enter_api_key ==
    /\ api_key = ""
    /\ api_key' = "sk-ant-key"
    /\ UNCHANGED <<pdf, model_answers, selected_items, claude_model, current_file_label, progress_bar, worker,
                   runs, delayed>>

\* start_processing: a new thread runs process_documents in the first free slot.
start_processing(w) ==
    /\ selected_items # <<>>
    /\ api_key # ""
    /\ worker[w].pc = "idle"
    /\ \A v \in Workers : v < w => worker[v].pc # "idle"
    /\ worker' = [worker EXCEPT ![w] = [NoThread EXCEPT !.pc = "process_documents"]]
    /\ runs' = runs + 1
    /\ UNCHANGED <<pdf, model_answers, selected_items, api_key, claude_model, current_file_label, progress_bar,
                   delayed>>

\* The user presses "Run Processing" when no run is in progress.
RunWhenIdle ==
    /\ runs < MaxRuns
    /\ \A v \in Workers : worker[v].pc = "idle"
    /\ \E w \in Workers : start_processing(w)

\* The user presses "Run Processing" at any time, also during a run.
RunAnytime ==
    /\ runs < MaxStarts
    /\ \E w \in Workers : start_processing(w)

(***************************************************************************)
(* The worker thread.                                                      *)
(***************************************************************************)
WaitingForReply == {"probe_wait", "reset_wait", "primary_wait", "secondary_wait",
                    "tertiary_wait", "flat_wait"}

TierWait == {"primary_wait", "secondary_wait", "tertiary_wait", "flat_wait"}

\* The threads whose client.messages.create call has not returned yet.
InFlight == {w \in Workers : worker[w].pc \in WaitingForReply}

DocumentPath(me) == me.document_paths[me.i]

\* client.messages.create is called: the request leaves.
SendQuery(w, kind, wait) ==
    /\ worker' = [worker EXCEPT ![w] =
          [@ EXCEPT !.pc = wait, !.answer = "",
                    !.queries = Append(@, [kind |-> kind, t |-> worker[w].t])]]
    /\ delayed' = FALSE
    /\ UNCHANGED <<pdf, model_answers, selected_items, api_key, claude_model, current_file_label, progress_bar,
                   runs>>

\* process_documents, lines 893-905.
process_documents_begin(w) ==
    LET me == worker[w]
        paths == get_all_document_paths(selected_items)
    IN  /\ me.pc = "process_documents"
        /\ IF paths = <<>>
           THEN /\ worker' = [worker EXCEPT ![w] = [me EXCEPT !.pc = "finally"]]
                /\ UNCHANGED progress_bar
           ELSE /\ worker' = [worker EXCEPT ![w] =
                      [me EXCEPT !.pc = "process_document", !.document_paths = paths,
                                 !.results = <<>>, !.i = 1]]
                /\ progress_bar' = [maximum |-> Len(paths), value |-> 0]
        /\ UNCHANGED <<pdf, model_answers, selected_items, api_key, claude_model, current_file_label, runs,
                       delayed>>

\* process_document_with_claude, lines 460-480: the text is extracted; without
\* text the function returns None, else the model is determined if needed.
process_document_begin(w) ==
    LET me == worker[w]
    IN  /\ me.pc = "process_document"
        /\ current_file_label' = Basename(DocumentPath(me))
        /\ \E opens \in BOOLEAN :
              LET parts == ExtractTextFromFile(DocumentPath(me), opens)
                  fresh == [me EXCEPT !.responses = <<>>, !.queries = <<>>, !.t = 0,
                                      !.result = NoResult, !.reset = "none"]
              IN  worker' = [worker EXCEPT ![w] =
                     IF parts = "error"
                     THEN [fresh EXCEPT !.pc = "document_done",
                                        !.status = Append(@, "no_text")]
                     ELSE [fresh EXCEPT !.is_expert_report = (parts = "expert"),
                                        !.probe = IF claude_model = None THEN 1 ELSE 0,
                                        !.pc = IF claude_model = None THEN "probe_send"
                                               ELSE "reset_send"]]
        /\ UNCHANGED <<pdf, model_answers, selected_items, api_key, claude_model, progress_bar, runs, delayed>>

\* get_latest_claude_model, line 34: the test message for one preferred model.
probe_send(w) ==
    /\ worker[w].pc = "probe_send"
    /\ SendQuery(w, "probe", "probe_wait")

\* get_latest_claude_model, lines 40-45, and line 479.
probe_reply(w) ==
    LET me == worker[w]
    IN  /\ me.pc = "probe_wait"
        /\ \E works \in BOOLEAN :
              IF works
              THEN /\ claude_model' = preferred_models[me.probe]
                   /\ worker' = [worker EXCEPT ![w] =
                         [me EXCEPT !.pc = "reset_send", !.probe = 0]]
              ELSE IF me.probe < Len(preferred_models)
              THEN /\ UNCHANGED claude_model
                   /\ worker' = [worker EXCEPT ![w] =
                         [me EXCEPT !.pc = "probe_send", !.probe = me.probe + 1]]
              ELSE /\ claude_model' = fallback_model
                   /\ worker' = [worker EXCEPT ![w] =
                         [me EXCEPT !.pc = "reset_send", !.probe = 0]]
        /\ UNCHANGED <<pdf, model_answers, selected_items, api_key, current_file_label, progress_bar, runs,
                       delayed>>

\* reset_send without the call of line 483: the loop over the prompts begins
\* at once.
reset_send_skipped(w) ==
    LET me == worker[w]
    IN  /\ me.pc = "reset_send"
        /\ worker' = [worker EXCEPT ![w] =
              [me EXCEPT !.pc = "next_prompt", !.t = 1, !.responses = <<>>]]
        /\ UNCHANGED <<pdf, model_answers, selected_items, api_key, claude_model,
                       current_file_label, progress_bar, runs, delayed>>

\* reset_claude_session, line 443.
reset_send(w) ==
    /\ worker[w].pc = "reset_send"
    /\ SendQuery(w, "reset", "reset_wait")

\* reset_reply with a failed reset query ending the document like a failed
\* tier query.
reset_reply_fatal(w) ==
    LET me == worker[w]
    IN  /\ me.pc = "reset_wait"
        /\ \E ok \in BOOLEAN :
              worker' = [worker EXCEPT ![w] =
                 IF ok
                 THEN [me EXCEPT !.pc = "next_prompt", !.t = 1, !.responses = <<>>,
                                 !.reset = "ok"]
                 ELSE [me EXCEPT !.pc = "document_done", !.reset = "failed",
                                 !.result = ErrorResult(DocumentPath(me), QueryError),
                                 !.status = Append(@, "query_error")]]
        /\ UNCHANGED <<pdf, model_answers, selected_items, api_key, claude_model,
                       current_file_label, progress_bar, runs, delayed>>

\* reset_claude_session, lines 453-458: the reply (return True) or the
\* exception, caught and logged (return False); the caller (line 483) ignores
\* the value returned, and the loop over the prompts begins.
reset_reply(w) ==
    LET me == worker[w]
    IN  /\ me.pc = "reset_wait"
        /\ \E ok \in BOOLEAN :
              worker' = [worker EXCEPT ![w] =
                 [me EXCEPT !.pc = "next_prompt", !.t = 1, !.responses = <<>>,
                            !.reset = IF ok THEN "ok" ELSE "failed"]]
        /\ UNCHANGED <<pdf, model_answers, selected_items, api_key, claude_model, current_file_label,
                       progress_bar, runs, delayed>>

\* next_prompt with the tiers of an expert report used for every document.
next_prompt_always_tiered(w) ==
    LET me == worker[w]
        cleared == [me EXCEPT !.primary_result = "", !.secondary_result = "",
                              !.tertiary_result = ""]
    IN  /\ me.pc = "next_prompt"
        /\ worker' = [worker EXCEPT ![w] =
              IF me.t > Len(prompts)
              THEN [cleared EXCEPT !.pc = "document_done",
                                   !.result = DocumentResult(DocumentPath(me), me.responses),
                                   !.status = Append(@, "ok")]
              ELSE [cleared EXCEPT !.pc = "primary_send"]]
        /\ UNCHANGED <<pdf, model_answers, selected_items, api_key, claude_model,
                       current_file_label, progress_bar, runs, delayed>>

\* Lines 491-495 and 726-735: the next prompt of the loop, or the return of
\* the document's result after the last one.
next_prompt(w) ==
    LET me == worker[w]
        cleared == [me EXCEPT !.primary_result = "", !.secondary_result = "",
                              !.tertiary_result = ""]
    IN  /\ me.pc = "next_prompt"
        /\ worker' = [worker EXCEPT ![w] =
              IF me.t > Len(prompts)
              THEN [cleared EXCEPT !.pc = "document_done",
                                   !.result = DocumentResult(DocumentPath(me), me.responses),
                                   !.status = Append(@, "ok")]
              ELSE [cleared EXCEPT !.pc = IF me.is_expert_report THEN "primary_send"
                                          ELSE "flat_send"]]
        /\ UNCHANGED <<pdf, model_answers, selected_items, api_key, claude_model, current_file_label,
                       progress_bar, runs, delayed>>

\* StoreCombined with the prompts taken from the end of the list.
StoreCombined_LastFirst(me) ==
    [me EXCEPT !.pc = "prompt_sleep",
               !.responses = Append(@, [prompt |-> prompts[Len(prompts) + 1 - me.t],
                                        response |-> CombineResults(me.primary_result,
                                                                    me.secondary_result,
                                                                    me.tertiary_result)])]

\* Line 666: the combined result is stored for the prompt; the thread then
\* reaches the sleep of line 724.
StoreCombined(me) ==
    [me EXCEPT !.pc = "prompt_sleep",
               !.responses = Append(@, [prompt |-> prompts[me.t],
                                        response |-> CombineResults(me.primary_result,
                                                                    me.secondary_result,
                                                                    me.tertiary_result)])]

\* Lines 597-599: tertiary_result = "" and the test whether the tertiary
\* content is sent.
TertiaryOrStore(me) ==
    LET m == [me EXCEPT !.tertiary_result = ""]
    IN  IF NeedTertiary(m.primary_result, m.secondary_result)
        THEN [m EXCEPT !.pc = "tertiary_send"]
        ELSE StoreCombined(m)

\* Line 530.
primary_send(w) ==
    /\ worker[w].pc = "primary_send"
    /\ SendQuery(w, "primary", "primary_wait")

\* Lines 539-547: the primary answer is cleaned; the secondary content is
\* sent next if the primary found too little.
primary_reply(w) ==
    LET me == worker[w]
    IN  /\ me.pc = "primary_wait"
        /\ \E answer \in model_answers :
              LET m == [me EXCEPT !.primary_result = Cleaned[answer],
                                  !.secondary_result = "",
                                  !.answer = answer]
              IN  worker' = [worker EXCEPT ![w] =
                     IF NeedSecondary(m.primary_result)
                     THEN [m EXCEPT !.pc = "secondary_send"]
                     ELSE TertiaryOrStore(m)]
        /\ UNCHANGED <<pdf, model_answers, selected_items, api_key, claude_model, current_file_label,
                       progress_bar, runs, delayed>>

\* Line 579.
secondary_send(w) ==
    /\ worker[w].pc = "secondary_send"
    /\ SendQuery(w, "secondary", "secondary_wait")

\* Lines 588-595: the secondary answer is cleaned, then the thread sleeps.
secondary_reply(w) ==
    LET me == worker[w]
    IN  /\ me.pc = "secondary_wait"
        /\ \E answer \in model_answers :
              worker' = [worker EXCEPT ![w] =
                 [me EXCEPT !.secondary_result = Cleaned[answer],
                            !.answer = answer,
                            !.pc = "secondary_sleep"]]
        /\ UNCHANGED <<pdf, model_answers, selected_items, api_key, claude_model, current_file_label,
                       progress_bar, runs, delayed>>

\* Line 595 returns; lines 597-599 follow.
secondary_sleep_done(w) ==
    LET me == worker[w]
    IN  /\ me.pc = "secondary_sleep"
        /\ worker' = [worker EXCEPT ![w] = TertiaryOrStore([me EXCEPT !.answer = ""])]
        /\ delayed' = TRUE
        /\ UNCHANGED <<pdf, model_answers, selected_items, api_key, claude_model, current_file_label,
                       progress_bar, runs>>

\* Line 631.
tertiary_send(w) ==
    /\ worker[w].pc = "tertiary_send"
    /\ SendQuery(w, "tertiary", "tertiary_wait")

\* Lines 640-647: the tertiary answer is cleaned, then the thread sleeps.
tertiary_reply(w) ==
    LET me == worker[w]
    IN  /\ me.pc = "tertiary_wait"
        /\ \E answer \in model_answers :
              worker' = [worker EXCEPT ![w] =
                 [me EXCEPT !.tertiary_result = Cleaned[answer],
                            !.answer = answer,
                            !.pc = "tertiary_sleep"]]
        /\ UNCHANGED <<pdf, model_answers, selected_items, api_key, claude_model, current_file_label,
                       progress_bar, runs, delayed>>

\* Line 647 returns; lines 649-667 follow.
tertiary_sleep_done(w) ==
    LET me == worker[w]
    IN  /\ me.pc = "tertiary_sleep"
        /\ worker' = [worker EXCEPT ![w] = StoreCombined([me EXCEPT !.answer = ""])]
        /\ delayed' = TRUE
        /\ UNCHANGED <<pdf, model_answers, selected_items, api_key, claude_model, current_file_label,
                       progress_bar, runs>>

\* Line 703: the single query of a document that is no expert report.
flat_send(w) ==
    /\ worker[w].pc = "flat_send"
    /\ SendQuery(w, "flat", "flat_wait")

\* Lines 713-720: the answer is cleaned and stored as it is.
flat_reply(w) ==
    LET me == worker[w]
    IN  /\ me.pc = "flat_wait"
        /\ \E answer \in model_answers :
              worker' = [worker EXCEPT ![w] =
                 [me EXCEPT !.pc = "prompt_sleep",
                            !.answer = answer,
                            !.responses = Append(@, [prompt |-> prompts[me.t],
                                                     response |-> Cleaned[answer]])]]
        /\ UNCHANGED <<pdf, model_answers, selected_items, api_key, claude_model, current_file_label,
                       progress_bar, runs, delayed>>

\* prompt_sleep_done with a sleep that does not let the loop go on.
prompt_sleep_done_stays(w) ==
    LET me == worker[w]
    IN  /\ me.pc = "prompt_sleep"
        /\ worker' = [worker EXCEPT ![w] = [me EXCEPT !.answer = ""]]
        /\ delayed' = TRUE
        /\ UNCHANGED <<pdf, model_answers, selected_items, api_key, claude_model,
                       current_file_label, progress_bar, runs>>

\* Line 724 returns; the loop goes to the next prompt.
prompt_sleep_done(w) ==
    LET me == worker[w]
    IN  /\ me.pc = "prompt_sleep"
        /\ worker' = [worker EXCEPT ![w] =
              [me EXCEPT !.pc = "next_prompt", !.t = me.t + 1, !.answer = ""]]
        /\ delayed' = TRUE
        /\ UNCHANGED <<pdf, model_answers, selected_items, api_key, claude_model, current_file_label,
                       progress_bar, runs>>

\* query_raises with the exception ending the loop over the documents.
query_raises_ends_run(w) ==
    LET me == worker[w]
    IN  /\ me.pc \in TierWait
        /\ worker' = [worker EXCEPT ![w] =
              [me EXCEPT !.pc = "finish",
                         !.results = Append(@, ErrorResult(DocumentPath(me), QueryError)),
                         !.primary_result = "", !.secondary_result = "",
                         !.tertiary_result = "",
                         !.status = Append(@, "query_error")]]
        /\ UNCHANGED <<pdf, model_answers, selected_items, api_key, claude_model,
                       current_file_label, progress_bar, runs, delayed>>

\* Lines 737-744: a tier query raises; the handler returns the error
\* dictionary of the document.
query_raises(w) ==
    LET me == worker[w]
    IN  /\ me.pc \in TierWait
        /\ worker' = [worker EXCEPT ![w] =
              [me EXCEPT !.pc = "document_done",
                         !.result = ErrorResult(DocumentPath(me), QueryError),
                         !.primary_result = "", !.secondary_result = "",
                         !.tertiary_result = "",
                         !.status = Append(@, "query_error")]]
        /\ UNCHANGED <<pdf, model_answers, selected_items, api_key, claude_model, current_file_label,
                       progress_bar, runs, delayed>>

\* process_documents, lines 910-917: the result is kept if there is one and
\* the progress bar advances; the thread then sleeps (line 920).
document_done(w) ==
    LET me == worker[w]
    IN  /\ me.pc = "document_done"
        /\ worker' = [worker EXCEPT ![w] =
              [me EXCEPT !.pc = "document_sleep",
                         !.results = IF me.result # NoResult THEN Append(@, me.result) ELSE @]]
        /\ progress_bar' = [progress_bar EXCEPT !.value = me.i]
        /\ UNCHANGED <<pdf, model_answers, selected_items, api_key, claude_model, current_file_label, runs,
                       delayed>>

\* Line 920 returns; the loop goes to the next document or ends.
document_sleep_done(w) ==
    LET me == worker[w]
    IN  /\ me.pc = "document_sleep"
        /\ worker' = [worker EXCEPT ![w] =
              LET m == [me EXCEPT !.result = NoResult, !.responses = <<>>, !.queries = <<>>,
                                  !.t = 0, !.is_expert_report = FALSE, !.reset = "none"]
              IN  IF me.i < Len(me.document_paths)
                  THEN [m EXCEPT !.pc = "process_document", !.i = me.i + 1]
                  ELSE [m EXCEPT !.pc = "finish"]]
        /\ delayed' = TRUE
        /\ UNCHANGED <<pdf, model_answers, selected_items, api_key, claude_model, current_file_label,
                       progress_bar, runs>>

\* Lines 922-935: the report is created if there are results, and a message
\* box tells the user how the run ended.  Saving the report can fail.
finish(w) ==
    LET me == worker[w]
    IN  /\ me.pc = "finish"
        /\ \E saved \in BOOLEAN :
              worker' = [worker EXCEPT ![w] =
                 IF me.results = <<>>
                 THEN [me EXCEPT !.pc = "message_box", !.outcome = "showwarning"]
                 ELSE IF saved
                 THEN [me EXCEPT !.pc = "message_box", !.outcome = "showinfo",
                                 !.report = create_report_document(me.results)]
                 ELSE [me EXCEPT !.pc = "message_box", !.outcome = "showerror"]]
        /\ UNCHANGED <<pdf, model_answers, selected_items, api_key, claude_model, current_file_label,
                       progress_bar, runs, delayed>>

\* The user closes the message box.
message_box_closed(w) ==
    LET me == worker[w]
    IN  /\ me.pc = "message_box"
        /\ worker' = [worker EXCEPT ![w] = [me EXCEPT !.pc = "finally"]]
        /\ UNCHANGED <<pdf, model_answers, selected_items, api_key, claude_model, current_file_label,
                       progress_bar, runs, delayed>>

\* Lines 942-948: the labels are reset and the thread ends.
finally(w) ==
    /\ worker[w].pc = "finally"
    /\ current_file_label' = NA
    /\ progress_bar' = [progress_bar EXCEPT !.value = 0]
    /\ worker' = [worker EXCEPT ![w] = NoThread]
    /\ UNCHANGED <<pdf, model_answers, selected_items, api_key, claude_model, runs, delayed>>

\* One step of a worker thread.
ThreadStep(w) ==
    \/ process_documents_begin(w)
    \/ process_document_begin(w)
    \/ probe_send(w)
    \/ probe_reply(w)
    \/ reset_send(w)
    \/ reset_reply(w)
    \/ next_prompt(w)
    \/ primary_send(w)
    \/ primary_reply(w)
    \/ secondary_send(w)
    \/ secondary_reply(w)
    \/ secondary_sleep_done(w)
    \/ tertiary_send(w)
    \/ tertiary_reply(w)
    \/ tertiary_sleep_done(w)
    \/ flat_send(w)
    \/ flat_reply(w)
    \/ prompt_sleep_done(w)
    \/ query_raises(w)
    \/ document_done(w)
    \/ document_sleep_done(w)
    \/ finish(w)
    \/ message_box_closed(w)
    \/ finally(w)

UserSetup ==
    \/ \E f \in Files : select_files(f)
    \/ clear_selection
    \/ enter_api_key

(***************************************************************************)
(* extract_text_from_pdf, page by page.                                    *)
(***************************************************************************)
\* The default of the parameter max_pages.
max_pages == 250
\* The primary text ends before this page index, the secondary text begins
\* with it.
PrimaryEnd == 10
\* The secondary text ends before this page index, the tertiary text begins
\* with it.
SecondaryEnd == 20

Min(a, b) == IF a <= b THEN a ELSE b

\* PageCount without the cap.
PageCount_NoCap(len_doc) == len_doc

\* Line 337: page_count = min(len(doc), max_pages)
PageCount(len_doc) == Min(len_doc, max_pages)

PageCounts == (0..SmallDoc) \cup {max_pages + 1}

\* Lines 335-342: fitz.open, which can raise (lines 416-418 return the error),
\* then the page count and the choice of the chunking by the path.
open_pdf ==
    /\ pdf.pc = "open"
    /\ \E opens \in BOOLEAN :
          pdf' = IF ~opens
                 THEN [pdf EXCEPT !.pc = "returned", !.parts = "error"]
                 ELSE [pdf EXCEPT !.page_count = PageCount(pdf.len_doc),
                                  !.page_num = 0,
                                  !.pc = IF Contains(pdf.file_path, "Expert Reports")
                                         THEN "primary" ELSE "standard"]
    /\ UNCHANGED <<selected_items, api_key, claude_model, current_file_label, progress_bar,
                   worker, runs, delayed, model_answers>>

\* One iteration of a loop "for page_num in range(.., stop)": the text of the
\* page and its marker are appended; a page whose load raises is logged and
\* left out (continue).
load_page(loop, text, stop) ==
    /\ pdf.pc = loop
    /\ pdf.page_num < stop
    /\ \E raises \in BOOLEAN :
          /\ raises => Cardinality(pdf.failed) < MaxPageErrors
          /\ pdf' = IF raises
                    THEN [pdf EXCEPT !.failed = @ \cup {pdf.page_num},
                                     !.page_num = @ + 1]
                    ELSE [pdf EXCEPT ![text] = Append(@, pdf.page_num + 1),
                                     !.page_num = @ + 1]
    /\ UNCHANGED <<selected_items, api_key, claude_model, current_file_label, progress_bar,
                   worker, runs, delayed, model_answers>>

\* The range of a loop is exhausted: the next loop begins at page index first.
next_loop(loop, stop, next, first) ==
    /\ pdf.pc = loop
    /\ pdf.page_num >= stop
    /\ pdf' = [pdf EXCEPT !.pc = next, !.page_num = first]
    /\ UNCHANGED <<selected_items, api_key, claude_model, current_file_label, progress_bar,
                   worker, runs, delayed, model_answers>>

\* The last loop is exhausted: the dictionary is returned.
return_parts(loop, stop, parts) ==
    /\ pdf.pc = loop
    /\ pdf.page_num >= stop
    /\ pdf' = [pdf EXCEPT !.pc = "returned", !.parts = parts]
    /\ UNCHANGED <<selected_items, api_key, claude_model, current_file_label, progress_bar,
                   worker, runs, delayed, model_answers>>

\* Lines 349-360.
primary_page == load_page("primary", "primary_text", Min(PrimaryEnd, pdf.page_count))

primary_done ==
    next_loop("primary", Min(PrimaryEnd, pdf.page_count), "secondary", PrimaryEnd)

\* Lines 363-374.
secondary_page == load_page("secondary", "secondary_text", Min(SecondaryEnd, pdf.page_count))

secondary_done ==
    next_loop("secondary", Min(SecondaryEnd, pdf.page_count), "tertiary", SecondaryEnd)

\* Lines 377-388.
tertiary_page == load_page("tertiary", "tertiary_text", pdf.page_count)

\* Lines 390-395.
tertiary_done == return_parts("tertiary", pdf.page_count, "expert")

\* Lines 399-410.
standard_page == load_page("standard", "text", pdf.page_count)

\* Lines 412-415.
standard_done == return_parts("standard", pdf.page_count, "flat")

(***************************************************************************)
(* Specifications.                                                         *)
(***************************************************************************)
\* Runs follow one another: the user waits for the end of a run before
\* starting the next.
Next ==
    \/ UserSetup
    \/ RunWhenIdle
    \/ \E w \in Workers : ThreadStep(w)

Spec == Init /\ [][Next]_vars

\* The user has entered the key and selected one PDF, an expert report or not,
\* and presses "Run Processing" at any time; the model service answers every
\* tier query it does not fail with the same text, a long quote or "N/A".
InitRestart ==
    /\ selected_items \in {<<PlainPdf>>, <<ExpertPdf>>}
    /\ api_key = "sk-ant-key"
    /\ claude_model = None
    /\ current_file_label = NA
    /\ progress_bar = [maximum |-> 0, value |-> 0]
    /\ worker = [w \in Workers |-> NoThread]
    /\ runs = 0
    /\ delayed = TRUE
    /\ model_answers \in {{LongQuote}, {NA}}
    /\ pdf = NoPdf

NextRestart ==
    \/ RunAnytime
    \/ \E w \in Workers : ThreadStep(w)

SpecRestart == InitRestart /\ [][NextRestart]_vars

\* Runs that follow one another, with a model service that answers with the
\* sentinel or a long quote and a thread that goes on whenever it can: every
\* query returns or raises, every sleep ends, and the user closes the message
\* box at the end of the run.
InitFair ==
    /\ selected_items = <<>>
    /\ api_key = ""
    /\ claude_model = None
    /\ current_file_label = NA
    /\ progress_bar = [maximum |-> 0, value |-> 0]
    /\ worker = [w \in Workers |-> NoThread]
    /\ runs = 0
    /\ delayed = TRUE
    /\ model_answers = {NA, LongQuote}
    /\ pdf = NoPdf

SpecFair == InitFair /\ [][Next]_vars /\ WF_vars(\E w \in Workers : ThreadStep(w))

\* extract_text_from_pdf is called for a PDF document of some number of pages.
InitExtract ==
    /\ selected_items = <<>>
    /\ api_key = ""
    /\ claude_model = None
    /\ current_file_label = NA
    /\ progress_bar = [maximum |-> 0, value |-> 0]
    /\ worker = [w \in Workers |-> NoThread]
    /\ runs = 0
    /\ delayed = TRUE
    /\ model_answers = Answers
    /\ \E file_path \in {ExpertPdf, PlainPdf} : \E len_doc \in PageCounts :
          pdf = [NoPdf EXCEPT !.pc = "open", !.file_path = file_path, !.len_doc = len_doc]

NextExtract ==
    \/ open_pdf
    \/ primary_page
    \/ primary_done
    \/ secondary_page
    \/ secondary_done
    \/ tertiary_page
    \/ tertiary_done
    \/ standard_page
    \/ standard_done

SpecExtract == InitExtract /\ [][NextExtract]_vars

\* Runs that follow one another, with a model service that answers every
\* tier query in words that it found nothing.
InitPhrases ==
    /\ selected_items = <<>>
    /\ api_key = ""
    /\ claude_model = None
    /\ current_file_label = NA
    /\ progress_bar = [maximum |-> 0, value |-> 0]
    /\ worker = [w \in Workers |-> NoThread]
    /\ runs = 0
    /\ delayed = TRUE
    /\ model_answers = NoInformationAnswers
    /\ pdf = NoPdf

SpecPhrases == InitPhrases /\ [][Next]_vars

(***************************************************************************)
(* Properties.                                                             *)
(***************************************************************************)
\* The kinds of the queries sent for the current prompt, in the order sent.
TierKinds(me) ==
    LET sent == SelectSeq(me.queries, LAMBDA q : q.t = me.t)
    IN  [k \in 1..Len(sent) |-> sent[k].kind]

Asked(me, kind) == \E k \in 1..Len(TierKinds(me)) : TierKinds(me)[k] = kind

\* The result of an expert report's prompt has just been stored.
ExpertPromptStored(me) == me.pc = "prompt_sleep" /\ me.is_expert_report

\* C1: for an expert report and any prompt, the secondary tier is asked if and
\* only if the cleaned primary answer is the sentinel or shorter than 100
\* characters; after a primary answer of at least 100 characters of content
\* the primary query is the only query of the prompt.
C1_SecondaryIffPrimaryInsufficient ==
    \A w \in Workers :
        LET me == worker[w]
            p == Strip(me.primary_result)
        IN  ExpertPromptStored(me) =>
                /\ Asked(me, "secondary") <=> (p = NA \/ Len(p) < 100)
                /\ (p # NA /\ Len(p) >= 100) => TierKinds(me) = <<"primary">>

\* A prompt of an expert report answered with a long quote by the primary tier.
C1_Witness ==
    \E w \in Workers :
        /\ ExpertPromptStored(worker[w])
        /\ worker[w].primary_result = LongQuote
        /\ TierKinds(worker[w]) = <<"primary">>

\* C2: for an expert report and any prompt, the tertiary tier is asked if and
\* only if primary and secondary are both the sentinel, or both are shorter
\* than 100 characters and the secondary is the sentinel; it is never asked
\* when the secondary tier was not asked or gave content.
C2_TertiaryIffBothUnproductive ==
    \A w \in Workers :
        LET me == worker[w]
            p == Strip(me.primary_result)
            s == Strip(me.secondary_result)
        IN  ExpertPromptStored(me) =>
                /\ Asked(me, "tertiary") <=>
                      \/ p = NA /\ s = NA
                      \/ Len(p) < 100 /\ Len(s) < 100 /\ s = NA
                /\ Asked(me, "tertiary") => Asked(me, "secondary") /\ s = NA
                /\ ~Asked(me, "secondary") => ~Asked(me, "tertiary")

\* A prompt for which a short primary quote and an empty secondary answer led
\* to the tertiary tier.
C2_Witness ==
    \E w \in Workers :
        /\ ExpertPromptStored(worker[w])
        /\ worker[w].primary_result = ShortQuote
        /\ worker[w].secondary_result = NA
        /\ TierKinds(worker[w]) = <<"primary", "secondary", "tertiary">>

\* The cleaned and stripped contents of the tiers asked for the current
\* prompt, in tier order, without those equal to the sentinel.
AskedContents(me) ==
    LET of == [primary |-> me.primary_result, secondary |-> me.secondary_result,
               tertiary |-> me.tertiary_result]
        contents == [k \in 1..Len(TierKinds(me)) |-> Strip(of[TierKinds(me)[k]])]
    IN  SelectSeq(contents, LAMBDA c : c # NA)

StoredResponse(me) == me.responses[Len(me.responses)].response

IsMaterial(c) == Strip(c) # "" /\ ~Contains(c, NA) /\ ~is_empty_response(c)

\* C4: every content stored for a prompt of a document is the sentinel or
\* extracted material.
C4_StoredContentIsSentinelOrMaterial ==
    \A w \in Workers :
        \A k \in 1..Len(worker[w].responses) :
            LET c == worker[w].responses[k].response
            IN  c = NA \/ IsMaterial(c)

\* The result of the k-th document of the run: the one just returned, or the
\* one kept in results (documents without text leave none).
DocResult(me, k) ==
    IF k = Len(me.status) /\ me.pc = "document_done"
    THEN me.result
    ELSE me.results[Cardinality({j \in 1..k : me.status[j] # "no_text"})]

\* C5: a failing query marks its document failed with the error message and
\* ends the queries of that document; every document of the run is still
\* processed, and a document none of whose queries fails gets all its prompts.
C5_FailureStaysInsideItsDocument ==
    \A w \in Workers :
        LET me == worker[w]
        IN  /\ me.pc \in {"finish", "message_box"} => Len(me.status) = Len(me.document_paths)
            /\ me.pc \in {"document_done", "document_sleep"} => Len(me.status) = me.i
            /\ \A k \in 1..Len(me.status) :
                  LET r == DocResult(me, k)
                  IN  /\ me.status[k] = "query_error" =>
                            /\ r.document_path = me.document_paths[k]
                            /\ r.response = "Error: Connection error."
                            /\ "individual_responses" \notin DOMAIN r
                      /\ me.status[k] = "ok" =>
                            /\ r.document_path = me.document_paths[k]
                            /\ "individual_responses" \in DOMAIN r
                            /\ [j \in 1..Len(r.individual_responses) |->
                                   r.individual_responses[j].prompt] = prompts
            /\ (me.pc = "document_done" /\ me.status[Len(me.status)] = "query_error") =>
                  /\ me.queries[Len(me.queries)].t = me.t
                  /\ me.queries[Len(me.queries)].kind \in {"primary", "secondary", "tertiary", "flat"}
                  /\ \A q \in 1..Len(me.queries) : me.queries[q].t <= me.t
                  /\ Len(me.responses) = me.t - 1

\* A run of two documents ends: a query of the first failed, the second was
\* processed with all its prompts.
C5_Witness ==
    \E w \in Workers :
        /\ worker[w].pc = "message_box"
        /\ worker[w].status = <<"query_error", "ok">>
        /\ Len(worker[w].results[2].individual_responses) = Len(prompts)

\* C6: a time.sleep(1) completes between any query of the pipeline and the
\* next tier query.
C6_DelayBeforeEveryTierQuery ==
    [][\A w \in Workers :
          (worker[w].pc \notin TierWait /\ worker'[w].pc \in TierWait) => delayed]_vars

\* C7: at most one client.messages.create call is in flight.
C7_OneQueryInFlight == Cardinality(InFlight) <= 1

\* C8: when a query fails, the results of the prompts completed before are
\* kept in the result returned for the document.
C8_CompletedPromptsKept ==
    \A w \in Workers :
        LET me == worker[w]
        IN  (/\ me.pc = "document_done"
             /\ me.status[Len(me.status)] = "query_error"
             /\ me.responses # <<>>) =>
                /\ "individual_responses" \in DOMAIN me.result
                /\ me.result.individual_responses = me.responses

\* C9: every document that failed appears in the report written, a document
\* with a failed query together with its error message.
C9_FailedDocumentsInReport ==
    \A w \in Workers :
        LET me == worker[w]
        IN  (me.pc = "message_box" /\ me.outcome = "showinfo") =>
                \A k \in 1..Len(me.status) :
                    me.status[k] # "ok" =>
                        \E s \in 1..Len(me.report) :
                            \E p \in 1..Len(me.report[s].paragraphs) :
                                LET par == me.report[s].paragraphs[p]
                                IN  /\ par.from = Basename(me.document_paths[k])
                                    /\ me.status[k] = "query_error" =>
                                          Contains(par.text, QueryError)

\* C10: a run in which no document was processed successfully does not end
\* with the success message.
C10_NoSuccessIsReportedAsFailure ==
    \A w \in Workers :
        LET me == worker[w]
        IN  (me.pc = "message_box" /\ \A k \in 1..Len(me.status) : me.status[k] # "ok") =>
                me.outcome # "showinfo"

\* The positions in the log of the current document of the queries of a kind.
QueriesOfKind(me, kinds) == {k \in 1..Len(me.queries) : me.queries[k].kind \in kinds}

TierQueryKinds == {"primary", "secondary", "tertiary", "flat"}

\* The thread is at its i-th document or has left the loop after it.
AtDocument(me) == me.i >= 1 /\ me.i <= Len(me.document_paths)

C12_OneResetBeforeTiers ==
    \A w \in Workers :
        LET me == worker[w]
            resets == QueriesOfKind(me, {"reset"})
        IN  /\ Cardinality(resets) <= 1
            /\ \A k \in QueriesOfKind(me, TierQueryKinds) : \E r \in resets : r < k
            /\ (me.pc \in {"document_done", "document_sleep"}
                   /\ me.status[Len(me.status)] # "no_text") =>
                  Cardinality(resets) = 1
            /\ me.pc \in {"next_prompt", "prompt_sleep"} \cup TierWait => Cardinality(resets) = 1

\* An expert report processed to its last prompt with escalation to the
\* tertiary tier: one reset query, sent before the tier queries.
C12_Witness ==
    \E w \in Workers :
        LET me == worker[w]
        IN  /\ me.pc = "document_done"
            /\ me.status[Len(me.status)] = "ok"
            /\ me.is_expert_report
            /\ Cardinality(QueriesOfKind(me, {"reset"})) = 1
            /\ Cardinality(QueriesOfKind(me, {"tertiary"})) = Len(prompts)
            /\ Cardinality(QueriesOfKind(me, TierQueryKinds)) = 3 * Len(prompts)

\* C13: a reset query that fails does not end the document: the loop over
\* the prompts begins as after a reply, a tier query is sent for every prompt
\* in turn, and the document ends failed only if one of its tier queries fails.
C13_FailedResetNotFatal ==
    \A w \in Workers :
        LET me == worker[w]
            Tiers(t) == {k \in QueriesOfKind(me, TierQueryKinds) : me.queries[k].t = t}
        IN  me.reset = "failed" =>
                /\ me.pc \in {"document_done", "document_sleep"} =>
                      /\ QueriesOfKind(me, TierQueryKinds) # {}
                      /\ me.status[Len(me.status)] = "ok" =>
                            /\ Len(me.result.individual_responses) = Len(prompts)
                            /\ \A t \in 1..Len(prompts) : Tiers(t) # {}
                      /\ me.status[Len(me.status)] = "query_error" =>
                            me.queries[Len(me.queries)].kind \in TierQueryKinds
                /\ me.pc \notin {"document_done", "document_sleep"} =>
                      /\ me.t >= 1
                      /\ Len(me.responses) \in {me.t - 1, me.t}
                      /\ \A t \in 1..(me.t - 1) : Tiers(t) # {}

\* A document processed with all its prompts after its reset query failed.
C13_Witness ==
    \E w \in Workers :
        LET me == worker[w]
        IN  /\ me.pc = "document_done"
            /\ me.reset = "failed"
            /\ me.status[Len(me.status)] = "ok"
            /\ Len(me.result.individual_responses) = Len(prompts)

\* C14: for an expert report and a prompt whose primary and secondary answers
\* are both the sentinel, three tier queries are sent, in the order primary,
\* secondary, tertiary, and the content stored is the canonical content of the
\* tertiary answer: the sentinel, or the answer without surrounding white
\* space.
C14_BothEmptyLeadsToTertiary ==
    \A w \in Workers :
        LET me == worker[w]
        IN  (/\ ExpertPromptStored(me)
             /\ me.primary_result = NA
             /\ me.secondary_result = NA) =>
                /\ TierKinds(me) = <<"primary", "secondary", "tertiary">>
                /\ Cardinality({k \in QueriesOfKind(me, TierQueryKinds) :
                                    me.queries[k].t = me.t}) = 3
                /\ StoredResponse(me) = Strip(me.tertiary_result)

\* Two empty answers, then a quote of the tertiary tier that is stored.
C14_Witness ==
    \E w \in Workers :
        LET me == worker[w]
        IN  /\ ExpertPromptStored(me)
            /\ me.primary_result = NA
            /\ me.secondary_result = NA
            /\ me.tertiary_result = ShortQuote
            /\ TierKinds(me) = <<"primary", "secondary", "tertiary">>
            /\ StoredResponse(me) = Strip(ShortQuote)

\* A text with something in it that is not the sentinel.
IsContent(c) == Strip(c) # NA /\ Strip(c) # ""

\* C15: when the primary tier gives content A, the secondary tier the sentinel
\* and the tertiary tier content B, the content stored is A, a blank line, B;
\* in general the contents of the tiers asked appear in the stored content in
\* the order primary, secondary, tertiary, separated by blank lines.
C15_MergeKeepsTierOrder ==
    \A w \in Workers :
        LET me == worker[w]
            contents == SelectSeq(AskedContents(me), LAMBDA c : c # "")
        IN  ExpertPromptStored(me) =>
                /\ (/\ IsContent(me.primary_result)
                    /\ me.secondary_result = NA
                    /\ Asked(me, "tertiary")
                    /\ IsContent(me.tertiary_result)) =>
                       StoredResponse(me) =
                          Strip(me.primary_result) \o "\n\n" \o Strip(me.tertiary_result)
                /\ contents # <<>> => StoredResponse(me) = Join(contents, "\n\n")

\* A short primary quote, an empty secondary answer and a tertiary quote.
C15_Witness ==
    \E w \in Workers :
        LET me == worker[w]
        IN  /\ ExpertPromptStored(me)
            /\ me.primary_result = ShortQuote
            /\ me.secondary_result = NA
            /\ me.tertiary_result = LongQuote
            /\ StoredResponse(me) = Strip(ShortQuote) \o "\n\n" \o LongQuote

\* C16: the calls of the model service made for a document processed to its
\* end are one reset query and the tier queries and no other call: three tier
\* queries per prompt for an expert report whose every answer is empty, then
\* stored as the sentinel for every prompt, and one tier query per prompt for
\* any other document.
C16_OnlyResetAndTierCalls ==
    \A w \in Workers :
        LET me == worker[w]
            tiers == Cardinality(QueriesOfKind(me, TierQueryKinds))
            AllEmpty == \A k \in 1..Len(me.responses) : me.responses[k].response = NA
        IN  (me.pc = "document_done" /\ me.status[Len(me.status)] = "ok") =>
                /\ Len(me.queries) = 1 + tiers
                /\ (me.is_expert_report /\ AllEmpty) => tiers = 3 * Len(prompts)
                /\ ~me.is_expert_report => tiers = Len(prompts)

\* C17: the prompts of a document are processed in the order of self.prompts,
\* one after the other: the queries of a prompt are sent when the results of
\* all prompts before it are stored, and the results of the document list the
\* prompts in that order.
C17_PromptsInDeclaredOrder ==
    \A w \in Workers :
        LET me == worker[w]
        IN  /\ \A k \in 1..Len(me.responses) : me.responses[k].prompt = prompts[k]
            /\ \A a, b \in 1..Len(me.queries) : a < b => me.queries[a].t <= me.queries[b].t
            /\ me.pc \in TierWait \cup {"primary_send", "secondary_send", "tertiary_send",
                                         "flat_send", "secondary_sleep", "tertiary_sleep"} =>
                  /\ Len(me.responses) = me.t - 1
                  /\ me.t \in 1..Len(prompts)
            /\ (me.pc = "document_done" /\ me.status[Len(me.status)] = "ok") =>
                  [k \in 1..Len(me.result.individual_responses) |->
                      me.result.individual_responses[k].prompt] = prompts

\* An expert report processed with all its prompts, the last one escalated.
C17_Witness ==
    \E w \in Workers :
        LET me == worker[w]
        IN  /\ me.pc = "document_done"
            /\ me.is_expert_report
            /\ me.status[Len(me.status)] = "ok"
            /\ Len(me.result.individual_responses) = Len(prompts)
            /\ Len(prompts) >= 2
            /\ me.queries[Len(me.queries)] = [kind |-> "tertiary", t |-> Len(prompts)]

\* The number of places of the text where p begins.
Occurrences(text, p) == Cardinality({i \in 1..Len(text) : MatchAt(text, p, i)})

\* C18: in the parsed result of a document a prompt whose content is the
\* sentinel has no footnotes; the footnotes of a content are the numbers that
\* follow the word "Page" in it, one for each citation "(Page n)" of the
\* quotes, and nothing else.
C18_FootnotesArePageNumbers ==
    \A w \in Workers :
        LET me == worker[w]
        IN  (me.pc = "document_done" /\ me.status[Len(me.status)] = "ok") =>
                LET parsed == parse_claude_response(me.result)
                IN  \A k \in 1..Len(parsed) :
                        LET content == parsed[k].content
                            footnotes == parsed[k].footnotes
                        IN  /\ content = NA => footnotes = <<>>
                            /\ Len(footnotes) = Occurrences(content, "(Page ")
                            /\ \A f \in 1..Len(footnotes) :
                                  Contains(content, "(Page " \o footnotes[f] \o ")")
                            /\ Contains(content, "(Page 3)") =>
                                  \E f \in 1..Len(footnotes) : footnotes[f] = "3"
                            /\ Contains(content, "(Page 12)") =>
                                  \E f \in 1..Len(footnotes) : footnotes[f] = "12"

\* An expert report with one prompt without information and one prompt with
\* quotes of two tiers.
C18_Witness ==
    \E w \in Workers :
        LET me == worker[w]
        IN  /\ me.pc = "document_done"
            /\ me.status[Len(me.status)] = "ok"
            /\ me.is_expert_report
            /\ LET parsed == parse_claude_response(me.result)
               IN  /\ parsed[1].content = NA
                   /\ parsed[1].footnotes = <<>>
                   /\ parsed[2].footnotes = <<"12", "3">>

\* C19: for a document that is no expert report one tier query is sent for
\* each prompt, with the text of the document, and no other tier query
\* follows for the prompt, whether the answer is the sentinel, a short quote
\* or a long quote.
C19_OneQueryPerPromptWhenFlat ==
    \A w \in Workers :
        LET me == worker[w]
            TiersOf(t) == {k \in QueriesOfKind(me, TierQueryKinds) : me.queries[k].t = t}
        IN  (AtDocument(me) /\ ~me.is_expert_report) =>
                /\ \A k \in QueriesOfKind(me, TierQueryKinds) : me.queries[k].kind = "flat"
                /\ \A t \in 1..Len(prompts) : Cardinality(TiersOf(t)) <= 1
                /\ \A t \in 1..Len(me.responses) : Cardinality(TiersOf(t)) = 1
                /\ me.pc = "prompt_sleep" => TierKinds(me) = <<"flat">>
                /\ (me.pc = "document_done" /\ me.status[Len(me.status)] = "ok") =>
                      Cardinality(QueriesOfKind(me, TierQueryKinds)) = Len(prompts)

\* A PDF that is no expert report, answered with the sentinel for its first
\* prompt and with a short quote for its second: two tier queries.
C19_Witness ==
    \E w \in Workers :
        LET me == worker[w]
        IN  /\ me.pc = "document_done"
            /\ DocumentPath(me) = PlainPdf
            /\ me.status[Len(me.status)] = "ok"
            /\ me.responses[1].response = NA
            /\ me.responses[2].response = ShortQuote
            /\ Cardinality(QueriesOfKind(me, {"flat"})) = 2
            /\ Cardinality(QueriesOfKind(me, TierQueryKinds)) = 2

\* The numbers of a text are those of the pages with an index from lo up to,
\* not including, hi, without the pages in skipped, in increasing order.
HoldsPages(text, lo, hi, skipped) ==
    /\ \A a, b \in 1..Len(text) : a < b => text[a] < text[b]
    /\ {text[k] : k \in 1..Len(text)} = {n + 1 : n \in (lo..(hi - 1)) \ skipped}

\* extract_text_from_pdf has returned the three texts of an expert report.
ExpertReturned == pdf.pc = "returned" /\ pdf.parts = "expert"

\* C20 as claimed: of an expert report with T pages the pages with index in
\* [0,10) are in the primary text, those in [10,20) in the secondary text and
\* those in [20, min(T,250)) in the tertiary text, every page below the cap in
\* exactly one of them; with at least 20 pages the texts hold 10, 10 and the
\* remaining pages, with fewer than 10 pages the secondary and the tertiary
\* text are empty.
C20_EveryPageInItsTier ==
    ExpertReturned =>
        LET N == Min(pdf.len_doc, 250)
        IN  /\ HoldsPages(pdf.primary_text, 0, Min(10, N), {})
            /\ HoldsPages(pdf.secondary_text, 10, Min(20, N), {})
            /\ HoldsPages(pdf.tertiary_text, 20, N, {})
            /\ pdf.len_doc >= 20 =>
                  /\ Len(pdf.primary_text) = 10
                  /\ Len(pdf.secondary_text) = 10
                  /\ Len(pdf.tertiary_text) = N - 20
            /\ pdf.len_doc < 10 => pdf.secondary_text = <<>> /\ pdf.tertiary_text = <<>>

\* C20 amended: of an expert report with T pages the pages that can be loaded
\* are in the primary text if their index is in [0,10), in the secondary text
\* if it is in [10,20) and in the tertiary text if it is in [20, min(T,250)),
\* each in exactly one text and in page order; a page that cannot be loaded
\* and a page from the cap on are in none.  When every page loads, a document
\* of at least 20 pages gets 10, 10 and the remaining pages; a document of
\* fewer than 10 pages gets an empty secondary and an empty tertiary text.
C20_LoadedPagesInTheirTier ==
    ExpertReturned =>
        LET N == Min(pdf.len_doc, 250)
        IN  /\ HoldsPages(pdf.primary_text, 0, Min(10, N), pdf.failed)
            /\ HoldsPages(pdf.secondary_text, 10, Min(20, N), pdf.failed)
            /\ HoldsPages(pdf.tertiary_text, 20, N, pdf.failed)
            /\ pdf.failed \subseteq 0..(N - 1)
            /\ (pdf.len_doc >= 20 /\ pdf.failed = {}) =>
                  /\ Len(pdf.primary_text) = 10
                  /\ Len(pdf.secondary_text) = 10
                  /\ Len(pdf.tertiary_text) = N - 20
            /\ pdf.len_doc < 10 => pdf.secondary_text = <<>> /\ pdf.tertiary_text = <<>>

\* An expert report of one page more than the cap, one page of which did not
\* load: the tertiary text holds the other pages from index 20 to the cap.
C20_Witness ==
    /\ ExpertReturned
    /\ pdf.len_doc = max_pages + 1
    /\ pdf.failed = {25}
    /\ Len(pdf.primary_text) = 10
    /\ Len(pdf.secondary_text) = 10
    /\ Len(pdf.tertiary_text) = max_pages - 21
    /\ pdf.tertiary_text[Len(pdf.tertiary_text)] = max_pages

\* The kind of the query whose answer the thread has just received.
AnsweredKind(me) == me.queries[Len(me.queries)].kind

\* The cleaned form of the answer just received, where the code keeps it.
CleanedAnswer(me) ==
    CASE AnsweredKind(me) = "primary" -> me.primary_result
      [] AnsweredKind(me) = "secondary" -> me.secondary_result
      [] AnsweredKind(me) = "tertiary" -> me.tertiary_result
      [] AnsweredKind(me) = "flat" -> StoredResponse(me)

\* C21: on each of the four paths that receive an answer of the model
\* (primary, secondary, tertiary, flat) an answer that is the sentinel when
\* trimmed, or that has "N/A" anywhere in it, is kept as exactly "N/A"; and
\* cleaning the sentinel gives the sentinel.
C21_SentinelAnywhereBecomesSentinel ==
    \A w \in Workers :
        LET me == worker[w]
        IN  me.answer # "" =>
                /\ AnsweredKind(me) \in TierQueryKinds
                /\ (Strip(me.answer) = NA \/ Contains(me.answer, NA)) =>
                      /\ CleanedAnswer(me) = NA
                      /\ CleanResult(CleanedAnswer(me)) = NA
                /\ CleanedAnswer(me) = NA => CleanResult(CleanedAnswer(me)) = CleanedAnswer(me)

\* A wordy answer of the tertiary tier that has the sentinel in it.
C21_Witness ==
    \E w \in Workers :
        LET me == worker[w]
        IN  /\ me.answer = "N/A - the pages contain nothing on this topic."
            /\ AnsweredKind(me) = "tertiary"
            /\ me.tertiary_result = NA

\* C22: an answer that says in words that nothing was found ("No information
\* found", "I cannot find ..", "I can't find ..", "There is no ..", "There
\* are no ..", "The document does not contain ..", "The document does not
\* mention ..", "Nothing in the document ..") is classified empty and kept
\* as the sentinel.
C22_NoInformationAnswersBecomeSentinel ==
    \A w \in Workers :
        LET me == worker[w]
        IN  me.answer \in NoInformationAnswers =>
                /\ is_empty_response(me.answer)
                /\ CleanedAnswer(me) = NA

C24_ModelResolvedOnce ==
    [][/\ claude_model # None => claude_model' = claude_model
       /\ \A w \in Workers :
             (worker[w].pc = "probe_send" /\ worker'[w].pc = "probe_wait") =>
                 claude_model = None]_vars

====
